---- MODULE Spec2Model ----
(***************************************************************************)
(* Translation-result reconciliation of the shipi18n CLI                   *)
(* (src/src/lib/api.js): Shipi18nAPI.translateJSON resolves regional       *)
(* language codes, receives the service's per-language documents and runs  *)
(* applyFallbacks over them.  The translate command                        *)
(* (src/src/commands/translate.js) plans an incremental run with the       *)
(* utilities of utils/incremental.js (flattenObject, unflattenObject,      *)
(* findMissingKeys, deepMerge), calls translateJSON and writes the merged  *)
(* documents.                                                              *)
(*                                                                         *)
(* JavaScript objects are modelled on a heap (a sequence of objects        *)
(* addressed by their index), because applyFallbacks copies documents      *)
(* shallowly ({ ...doc }) and setNestedValue writes in place: two          *)
(* documents may share nested objects.                                     *)
(*                                                                         *)
(* A value is an integer: 0 is undefined, negative numbers are leaves      *)
(* (null, the empty string, non-blank strings), positive numbers are heap  *)
(* addresses.  A key is a sequence of dot-free segments (<<"b","a">> is    *)
(* the key "b.a"), a dot-path is the sequence of its segments, so that      *)
(* joining keys with "." is concatenation and split(".") yields one key    *)
(* per segment.  A language code is the sequence of its "-" separated      *)
(* subtags (<<"pt","BR">> is "pt-BR").                                     *)
(***************************************************************************)
EXTENDS Integers, Sequences, FiniteSets, TLC

VARIABLES
    pc,                 \* position in translateJSON
    targetLanguages,    \* options.targetLanguages, as requested
    fallbackToSource,   \* options.fallback.fallbackToSource
    regionalFallback,   \* options.fallback.regionalFallback
    processedTargets,   \* processRegionalLanguages(...).processedTargets
    regionalMap,        \* processRegionalLanguages(...).regionalMap
    heap,               \* the JavaScript objects
    sourceContent,      \* address of the source document
    result,             \* the result set: language code -> value
    fallbackInfo,       \* the local fallbackInfo of applyFallbacks
    attached,           \* whether result.fallbackInfo was set
    rawHeap,            \* history: heap when applyFallbacks was entered
    rawResult,          \* history: result set when applyFallbacks was entered
    json,               \* the document given to translateJSON / read from <input>
    targetDoc,          \* second argument of findMissingKeys, first of deepMerge
    returned,           \* the document a utility function returned
    files,              \* the output directory: language code -> saved document
    existingTranslations, \* translate.js: the saved documents that were loaded
    allMissingKeys,     \* translate.js: flat map of the keys to translate
    incrementalStats,   \* translate.js: { total, existing, toTranslate }
    outputTranslations, \* translate.js: the documents written, per language
    requests,           \* number of requests sent to the translation service
    apiKey,             \* whether an API key is at hand (this.apiKey / apiKey)
    input,              \* translate.js: the <input> file ("none": no command runs)
    savedByName,        \* whether the saved documents are <output>/<lang>/<name>.json
    response,           \* the service's response, as received
    error,              \* the error translateJSON rejected with
    env,                \* process.env: the SHIPI18N_* variables
    fileConfig,         \* the parsed .shipi18nrc.yml, or NoFile
    config              \* what getConfig returned

configVars == <<env, fileConfig, config>>

planVars == <<json, targetDoc, returned, files, existingTranslations,
              allMissingKeys, incrementalStats, outputTranslations,
              apiKey, input, savedByName, configVars>>

vars == <<pc, targetLanguages, fallbackToSource, regionalFallback,
          processedTargets, regionalMap, heap, sourceContent, result,
          fallbackInfo, attached, rawHeap, rawResult, planVars, requests,
          response, error>>

---------------------------------------------------------------------------
(* Bounds *)

MaxTargets == 3
MaxResolverTargets == 3

---------------------------------------------------------------------------
(* Values *)

Undefined == 0
Null == -1
EmptyString == -2
SourceText == -3
ObjectCode == 1
ArrayCode == 2

Pt == <<"pt">>
PtBR == <<"pt", "BR">>
PtPT == <<"pt", "PT">>
De == <<"de">>
ZhHansCN == <<"zh", "Hans", "CN">>

\* the non-blank string the service returns for a language
TextOf(lang) == IF lang = Pt THEN -4 ELSE -5
\* a response entry that is a string but not JSON text, and one character of it
PlainText == -7
FirstChar == -8
\* the leaf of a metadata document, and a string that holds JSON text
MetaText == -9
JsonString == -10

\* reserved keys of the result set
Warnings == <<"warnings">>
Skipped == <<"skipped">>
ContextEnhanced == <<"contextEnhanced">>
NamespaceInfo == <<"namespaceInfo">>
FallbackInfoKey == <<"fallbackInfo">>

IsRef(v) == v > 0
\* JavaScript truthiness of a value of the model
Truthy(v) == v \notin {Undefined, Null, EmptyString}
\* typeof v === 'object' (true of null, of objects and of arrays)
TypeofObject(v) == v = Null \/ IsRef(v)

Ka == <<"a">>
Kb == <<"b">>
Kba == <<"b", "a">>
\* the index key "0", an own property of the spread of a string
K0 == <<"0">>
Keys == {K0, Ka, Kb, Kba}
\* iteration order of Object.keys / Object.entries: index keys first
KeyOrder == <<K0, Ka, Kb, Kba>>

NoFields == [k \in Keys |-> Undefined]
EmptyObject == [kind |-> "object", f |-> NoFields]

\* a non-null, non-array object
IsMapping(h, v) == IsRef(v) /\ h[v].kind = "object"

\* Object.keys(obj) of a document, in iteration order
RECURSIVE KeysFrom(_, _, _)
KeysFrom(h, a, i) ==
    IF i > Len(KeyOrder) THEN <<>>
    ELSE IF h[a].f[KeyOrder[i]] # Undefined
         THEN <<KeyOrder[i]>> \o KeysFrom(h, a, i + 1)
         ELSE KeysFrom(h, a, i + 1)

\* a string has its indices as keys
ObjectKeys(h, a) == IF IsRef(a) THEN KeysFrom(h, a, 1) ELSE <<K0>>

---------------------------------------------------------------------------
(* Document literals: top gives, per key, a leaf, or ObjectCode/ArrayCode   *)
(* under key "b"; sub gives the fields of the nested mapping under "b".     *)

Sub(a, b) == (K0 :> Undefined) @@ (Ka :> a) @@ (Kb :> b) @@ (Kba :> Undefined)
Doc(a, b, ba, sub) ==
    [sub |-> sub, top |-> (K0 :> Undefined) @@ (Ka :> a) @@ (Kb :> b) @@ (Kba :> ba)]
NoSub == Sub(Undefined, Undefined)

\* JSON.parse of a document text: allocates the document's objects
Build(h, d) ==
    LET nested == d.top[Kb] \in {ObjectCode, ArrayCode}
        child == IF d.top[Kb] = ArrayCode
                 THEN [kind |-> "array", f |-> NoFields]
                 ELSE [kind |-> "object", f |-> d.sub]
        h1 == IF nested THEN Append(h, child) ELSE h
        root == [kind |-> "object",
                 f |-> [k \in Keys |-> IF k = Kb /\ nested THEN Len(h1)
                                       ELSE d.top[k]]]
    IN [h |-> Append(h1, root), root |-> Len(h1) + 1]

\* the source documents tried; s is the non-blank source string
SourceDocsOf(s) ==
    { Doc(s, s, Undefined, NoSub),                       \* {a:"A", b:"B"}
      Doc(s, ObjectCode, Undefined, Sub(s, s)),          \* {a:"A", b:{a:"A", b:"B"}}
      Doc(s, ObjectCode, Undefined, Sub(EmptyString, s)),\* {a:"A", b:{a:"", b:"B"}}
      Doc(Null, ArrayCode, Undefined, NoSub),            \* {a:null, b:[..]}
      Doc(s, Undefined, s, NoSub) }                      \* {a:"A", "b.a":"B"}

SourceDocs == SourceDocsOf(SourceText)

\* the documents the service may return for a language; x is its string
RawDocsOf(x) ==
    { Doc(Undefined, Undefined, Undefined, NoSub),             \* {}
      Doc(x, Undefined, Undefined, NoSub),                     \* {a:"X"}
      Doc(x, x, Undefined, NoSub),                             \* {a:"X", b:"X"}
      Doc(x, Null, Undefined, NoSub),                          \* {a:"X", b:null}
      Doc(EmptyString, x, Undefined, NoSub),                   \* {a:"", b:"X"}
      Doc(x, ArrayCode, Undefined, NoSub),                     \* {a:"X", b:[..]}
      Doc(x, ObjectCode, Undefined, NoSub),                    \* {a:"X", b:{}}
      Doc(x, ObjectCode, Undefined, Sub(x, Undefined)),        \* {a:"X", b:{a:"X"}}
      Doc(Undefined, ObjectCode, Undefined, Sub(Undefined, x)),\* {b:{b:"X"}}
      Doc(x, ObjectCode, Undefined, Sub(x, x)),                \* {a:"X", b:{a:"X", b:"X"}}
      Doc(x, ObjectCode, Undefined, Sub(Null, x)),             \* {a:"X", b:{a:null, b:"X"}}
      Doc(x, Undefined, x, NoSub) }                            \* {a:"X", "b.a":"X"}

---------------------------------------------------------------------------
(* api.js helpers *)

\* getNestedValue(obj, path): path.split('.').reduce(...)
RECURSIVE GetFrom(_, _, _, _)
GetFrom(h, current, path, i) ==
    IF i > Len(path) THEN current
    ELSE IF Truthy(current) /\ TypeofObject(current)
            /\ h[current].f[<<path[i]>>] # Undefined
         THEN GetFrom(h, h[current].f[<<path[i]>>], path, i + 1)
         ELSE GetFrom(h, Undefined, path, i + 1)

GetNestedValue(h, obj, path) == GetFrom(h, obj, path, 1)

\* setNestedValue(obj, path, value); ok is FALSE when the walk reaches null
\* and the property access throws a TypeError
RECURSIVE SetFrom(_, _, _, _, _)
SetFrom(h, current, path, i, value) ==
    IF current = Null THEN [h |-> h, ok |-> FALSE]
    ELSE IF i = Len(path)
    THEN [h |-> [h EXCEPT ![current].f[<<path[i]>>] = value], ok |-> TRUE]
    ELSE LET key == <<path[i]>>
             cv == h[current].f[key]
         IN IF cv = Undefined \/ ~TypeofObject(cv)
            THEN SetFrom(Append([h EXCEPT ![current].f[key] = Len(h) + 1], EmptyObject),
                         Len(h) + 1, path, i + 1, value)
            ELSE SetFrom(h, cv, path, i + 1, value)

SetNestedValue(h, obj, path, value) == SetFrom(h, obj, path, 1, value)

\* findMissingKeys(source, translation, prefix) of the API client
RECURSIVE FindMissingFrom(_, _, _, _, _)
FindMissingFrom(h, source, translation, prefix, i) ==
    IF i > Len(KeyOrder) THEN <<>>
    ELSE LET key == KeyOrder[i]
             fullKey == prefix \o key
             sourceValue == h[source].f[key]
             translationValue == h[translation].f[key]
             rest == FindMissingFrom(h, source, translation, prefix, i + 1)
         IN IF sourceValue = Undefined THEN rest
            ELSE IF translationValue \in {Undefined, Null, EmptyString}
            THEN <<fullKey>> \o rest
            ELSE IF IsMapping(h, sourceValue) /\ IsRef(translationValue)
            THEN FindMissingFrom(h, sourceValue, translationValue, fullKey, 1) \o rest
            ELSE rest

FindMissingKeys(h, source, translation) == FindMissingFrom(h, source, translation, <<>>, 1)

---------------------------------------------------------------------------
(* processRegionalLanguages *)

Includes(seq, x) == \E i \in 1..Len(seq) : seq[i] = x
Elements(seq) == {seq[i] : i \in DOMAIN seq}
Count(seq, x) == Cardinality({i \in 1..Len(seq) : seq[i] = x})

\* lang.includes('-')
IsRegional(lang) == Len(lang) > 1
\* mutant: the base taken before the last '-' instead of the first
BaseOfLastDash(lang) == SubSeq(lang, 1, Len(lang) - 1)

\* lang.split('-')[0]
BaseOf(lang) == <<lang[1]>>

\* obj[key], undefined when the key is absent
Lookup(obj, key) == IF key \in DOMAIN obj THEN obj[key] ELSE Undefined

\* mutant: the loop body without the processedTargets.includes(lang) test
ResolveLanguageNoDedup(acc, lang, targets, regional) ==
    LET expand == IsRegional(lang) /\ regional
        baseLang == BaseOf(lang)
        addBase == expand /\ baseLang \notin acc.baseLanguagesAdded
                          /\ ~Includes(targets, baseLang)
        withBase == IF addBase THEN Append(acc.processedTargets, baseLang)
                    ELSE acc.processedTargets
    IN [processedTargets |-> Append(withBase, lang),
        regionalMap |-> IF expand THEN (lang :> baseLang) @@ acc.regionalMap
                        ELSE acc.regionalMap,
        baseLanguagesAdded |-> IF addBase THEN acc.baseLanguagesAdded \cup {baseLang}
                               ELSE acc.baseLanguagesAdded]

\* the body of the loop over targetLanguages
ResolveLanguage(acc, lang, targets, regional) ==
    LET expand == IsRegional(lang) /\ regional
        baseLang == BaseOf(lang)
        addBase == expand /\ baseLang \notin acc.baseLanguagesAdded
                          /\ ~Includes(targets, baseLang)
        withBase == IF addBase THEN Append(acc.processedTargets, baseLang)
                    ELSE acc.processedTargets
    IN [processedTargets |-> IF ~Includes(withBase, lang) THEN Append(withBase, lang)
                             ELSE withBase,
        regionalMap |-> IF expand THEN (lang :> baseLang) @@ acc.regionalMap
                        ELSE acc.regionalMap,
        baseLanguagesAdded |-> IF addBase THEN acc.baseLanguagesAdded \cup {baseLang}
                               ELSE acc.baseLanguagesAdded]

RECURSIVE ResolveFrom(_, _, _, _)
ResolveFrom(acc, i, targets, regional) ==
    IF i > Len(targets) THEN acc
    ELSE ResolveFrom(ResolveLanguage(acc, targets[i], targets, regional),
                     i + 1, targets, regional)

ProcessRegionalLanguages(targets, regional) ==
    ResolveFrom([processedTargets |-> <<>>, regionalMap |-> <<>>,
                 baseLanguagesAdded |-> {}], 1, targets, regional)

---------------------------------------------------------------------------
(* applyFallbacks.  acc = [h, res, info, ok]: the heap, the result set, the *)
(* local fallbackInfo, and whether no exception was thrown so far.          *)

NoFallbackInfo ==
    [used |-> FALSE, languagesFallbackToSource |-> <<>>,
     regionalFallbacks |-> <<>>, keysFallback |-> <<>>]

\* regionalFallback && regionalMap[lang]
HasBase(lang) ==
    regionalFallback /\ lang \in DOMAIN regionalMap /\ regionalMap[lang] # <<"">>

\* !translation || Object.keys(translation).length === 0
IsEmptyResult(h, translation) ==
    ~Truthy(translation) \/ Len(ObjectKeys(h, translation)) = 0

\* { ...doc }: a new object with the same own properties; the own
\* properties of a string are its characters, under their indices
ShallowCopy(h, doc) ==
    IF IsRef(doc) THEN Append(h, [kind |-> "object", f |-> h[doc].f])
    ELSE Append(h, [kind |-> "object", f |-> [NoFields EXCEPT ![K0] = FirstChar]])

\* result[lang] = { ...baseTranslation }, recorded as a regional fallback
RegionalCopy(acc, lang, baseLang) ==
    [acc EXCEPT
        !.h = ShallowCopy(acc.h, acc.res[baseLang]),
        !.res = (lang :> Len(acc.h) + 1) @@ acc.res,
        !.info.used = TRUE,
        !.info.regionalFallbacks = (lang :> baseLang) @@ acc.info.regionalFallbacks]

\* mutant: the source copy without the push to languagesFallbackToSource
SourceCopyUnrecorded(acc, lang) ==
    [acc EXCEPT
        !.h = ShallowCopy(acc.h, sourceContent),
        !.res = (lang :> Len(acc.h) + 1) @@ acc.res,
        !.info.used = TRUE]

\* result[lang] = { ...sourceContent }, recorded as a source fallback
SourceCopy(acc, lang) ==
    [acc EXCEPT
        !.h = ShallowCopy(acc.h, sourceContent),
        !.res = (lang :> Len(acc.h) + 1) @@ acc.res,
        !.info.used = TRUE,
        !.info.languagesFallbackToSource = Append(acc.info.languagesFallbackToSource, lang)]

\* mutant: the fill written into sourceContent instead of the translation
FillKeyIntoSource(acc, lang, key) ==
    LET fallbackValue == GetNestedValue(acc.h, sourceContent, key)
        baseTranslation == Lookup(acc.res, regionalMap[lang])
        baseValue == IF HasBase(lang) /\ Truthy(baseTranslation)
                     THEN GetNestedValue(acc.h, baseTranslation, key)
                     ELSE Undefined
        value == IF baseValue # Undefined THEN baseValue ELSE fallbackValue
        set == SetNestedValue(acc.h, sourceContent, key, value)
    IN IF value = Undefined THEN acc
       ELSE [acc EXCEPT !.h = set.h, !.ok = set.ok]

\* the body of the loop over missingKeys
FillKey(acc, lang, key) ==
    LET translation == acc.res[lang]
        fallbackValue == GetNestedValue(acc.h, sourceContent, key)
        baseTranslation == Lookup(acc.res, regionalMap[lang])
        baseValue == IF HasBase(lang) /\ Truthy(baseTranslation)
                     THEN GetNestedValue(acc.h, baseTranslation, key)
                     ELSE Undefined
        value == IF baseValue # Undefined THEN baseValue ELSE fallbackValue
        set == SetNestedValue(acc.h, translation, key, value)
    IN IF value = Undefined THEN acc
       ELSE [acc EXCEPT !.h = set.h, !.ok = set.ok]

RECURSIVE FillFrom(_, _, _, _)
FillFrom(acc, lang, missingKeys, i) ==
    IF i > Len(missingKeys) \/ ~acc.ok THEN acc
    ELSE FillFrom(FillKey(acc, lang, missingKeys[i]), lang, missingKeys, i + 1)

\* mutant: Case 2 without fallbackInfo.used = true
FillMissingKeysUnflagged(acc, lang) ==
    LET missingKeys == FindMissingKeys(acc.h, sourceContent, acc.res[lang])
    IN IF Len(missingKeys) > 0
       THEN FillFrom([acc EXCEPT !.info.keysFallback = (lang :> missingKeys) @@ acc.info.keysFallback],
                     lang, missingKeys, 1)
       ELSE acc

\* Case 2: fill the keys findMissingKeys reports
FillMissingKeys(acc, lang) ==
    LET missingKeys == FindMissingKeys(acc.h, sourceContent, acc.res[lang])
    IN IF Len(missingKeys) > 0
       THEN FillFrom([acc EXCEPT !.info.used = TRUE,
                                 !.info.keysFallback = (lang :> missingKeys) @@ acc.info.keysFallback],
                     lang, missingKeys, 1)
       ELSE acc

\* mutant: the loop body with Case 2 not guarded by fallbackToSource
ReconcileLanguageAlwaysFill(acc, lang) ==
    LET translation == Lookup(acc.res, lang)
        baseLang == regionalMap[lang]
        baseTranslation == Lookup(acc.res, baseLang)
    IN IF IsEmptyResult(acc.h, translation)
       THEN IF HasBase(lang) /\ Truthy(baseTranslation)
               /\ Len(ObjectKeys(acc.h, baseTranslation)) > 0
            THEN RegionalCopy(acc, lang, baseLang)
            ELSE IF fallbackToSource THEN SourceCopy(acc, lang) ELSE acc
       ELSE IF TypeofObject(translation)
            THEN FillMissingKeys(acc, lang)
            ELSE acc

\* the body of the loop over targetLanguages
ReconcileLanguage(acc, lang) ==
    LET translation == Lookup(acc.res, lang)
        baseLang == regionalMap[lang]
        baseTranslation == Lookup(acc.res, baseLang)
    IN IF IsEmptyResult(acc.h, translation)
       THEN IF HasBase(lang) /\ Truthy(baseTranslation)
               /\ Len(ObjectKeys(acc.h, baseTranslation)) > 0
            THEN RegionalCopy(acc, lang, baseLang)
            ELSE IF fallbackToSource THEN SourceCopy(acc, lang) ELSE acc
       ELSE IF fallbackToSource /\ TypeofObject(translation)
            THEN FillMissingKeys(acc, lang)
            ELSE acc

\* the loop over targetLanguages, from its i-th to its n-th element
RECURSIVE ReconcileFrom(_, _, _)
ReconcileFrom(acc, i, n) ==
    IF i > n \/ ~acc.ok THEN acc
    ELSE ReconcileFrom(ReconcileLanguage(acc, targetLanguages[i]), i + 1, n)

ApplyFallbacks(h, res) ==
    ReconcileFrom([h |-> h, res |-> res, info |-> NoFallbackInfo, ok |-> TRUE],
                  1, Len(targetLanguages))

---------------------------------------------------------------------------
(* getConfig (lib/config.js).  A configuration value is [t, v]: its type    *)
(* and, as a sequence of strings, its content.                              *)

UndefinedValue == [v |-> <<>>, t |-> "undefined"]
Str(s) == [v |-> <<s>>, t |-> "string"]
List(l) == [v |-> l, t |-> "list"]
Bool(b) == [v |-> IF b THEN <<"true">> ELSE <<"false">>, t |-> "boolean"]

ConfigKeys == {"apiKey", "sourceLanguage", "targetLanguages", "outputDir", "saveKeys"}

\* JavaScript truthiness of an environment variable
EnvTruthy(x) == x.t # "undefined" /\ x.v # <<"">>

\* value.split(',') on the strings tried
SplitComma(x) == IF x = Str("es,fr") THEN List(<<"es", "fr">>) ELSE List(x.v)

\* the config file: it does not exist, it cannot be read as a mapping, or
\* it is a mapping of some of the keys
NoFile == [state |-> "absent", keys |-> [k \in ConfigKeys |-> UndefinedValue]]
BadFile == [state |-> "unreadable", keys |-> [k \in ConfigKeys |-> UndefinedValue]]

\* lines 14-20: the configuration read from the environment
EnvConfig(e) ==
    [targetLanguages |-> IF e.targetLanguages.t = "undefined" THEN UndefinedValue
                         ELSE SplitComma(e.targetLanguages),
     apiKey |-> e.apiKey,
     sourceLanguage |-> IF EnvTruthy(e.sourceLanguage) THEN e.sourceLanguage ELSE Str("en"),
     outputDir |-> IF EnvTruthy(e.outputDir) THEN e.outputDir ELSE Str("./locales"),
     saveKeys |-> Bool(e.saveKeys = Str("true"))]

\* lines 12-39: getConfig(); a key of the file is taken when the
\* configuration has no value for it
GetConfigFrom(e, file) ==
    LET c == EnvConfig(e)
    IN [k \in ConfigKeys |->
           IF file.state = "mapping" /\ file.keys[k].t # "undefined"
              /\ c[k].t = "undefined"
           THEN file.keys[k] ELSE c[k]]

NoConfig == [k \in ConfigKeys |-> UndefinedValue]
NoEnv == [k \in ConfigKeys |-> UndefinedValue]

\* getConfig has not run
NoConfigState ==
    /\ env = NoEnv
    /\ fileConfig = NoFile
    /\ config = NoConfig

\* no response was received and no error raised
NoResponse == [ok |-> TRUE, status |-> 0, statusText |-> "", body |-> <<>>]
NoError == [status |-> 0, message |-> <<>>, code |-> ""]

---------------------------------------------------------------------------
(* translateJSON as a state machine *)

Langs == {Pt, PtBR}
ResolverLangs == {Pt, PtBR, PtPT, De, ZhHansCN}

ListsOver(S, n) == UNION {[1..k -> S] : k \in 1..n}

NoStats == [total |-> 0, existing |-> 0, toTranslate |-> 0]

\* the translate command has not run
NoCommandState ==
    /\ targetDoc = Undefined
    /\ returned = Undefined
    /\ files = <<>>
    /\ existingTranslations = <<>>
    /\ allMissingKeys = <<>>
    /\ incrementalStats = NoStats
    /\ outputTranslations = <<>>
    /\ requests = 0
    /\ input = "none"
    /\ savedByName = FALSE
    /\ response = NoResponse
    /\ error = NoError

Init ==
    /\ pc = "start"
    /\ apiKey \in BOOLEAN
    /\ NoConfigState
    /\ targetLanguages \in ListsOver(Langs, MaxTargets)
    /\ fallbackToSource \in BOOLEAN
    /\ regionalFallback \in BOOLEAN
    /\ processedTargets = <<>>
    /\ regionalMap = <<>>
    /\ \E d \in SourceDocs :
          /\ heap = Build(<<>>, d).h
          /\ sourceContent = Build(<<>>, d).root
    /\ result = <<>>
    /\ fallbackInfo = NoFallbackInfo
    /\ attached = FALSE
    /\ rawHeap = <<>>
    /\ rawResult = <<>>
    /\ json = sourceContent
    /\ NoCommandState

\* mutant: the API key is never found missing
MissingKeyNever == FALSE

\* line 40: !this.apiKey
MissingKey == ~apiKey

\* lines 40-42: translateJSON throws before anything else happens
Reject ==
    /\ pc = "start"
    /\ MissingKey
    /\ pc' = "rejected"
    /\ error' = [status |-> 0,
                 message |-> <<"API key is required. Set SHIPI18N_API_KEY or run: shipi18n config set apiKey YOUR_KEY">>,
                 code |-> "(undefined)"]
    /\ UNCHANGED <<targetLanguages, fallbackToSource, regionalFallback,
                   processedTargets, regionalMap, heap, sourceContent, result,
                   fallbackInfo, attached, rawHeap, rawResult, planVars, requests,
                   response>>

\* line 54: processRegionalLanguages(targetLanguages, regionalFallback)
Resolve ==
    /\ pc = "start"
    /\ ~MissingKey
    /\ LET r == ProcessRegionalLanguages(targetLanguages, regionalFallback)
       IN /\ processedTargets' = r.processedTargets
          /\ regionalMap' = r.regionalMap
    /\ pc' = "resolved"
    /\ UNCHANGED <<targetLanguages, fallbackToSource, regionalFallback, heap,
                   sourceContent, result, fallbackInfo, attached, rawHeap, rawResult,
                   planVars, requests, response, error>>

\* a document placed on the heap under a key of a mapping of documents
AddEntry(st, lang, d) ==
    LET b == Build(st.h, d)
    IN [h |-> b.h, res |-> (lang :> b.root) @@ st.res]

\* an entry of the response body: a string holding the JSON text of a
\* document, a structured document, or a string that is not JSON text
JsonText(d) == [doc |-> d, form |-> "json", text |-> JsonString]
Structured(d) == [doc |-> d, form |-> "object", text |-> Undefined]
NotJson(t) == [doc |-> Doc(Undefined, Undefined, Undefined, NoSub), form |-> "text", text |-> t]

\* the metadata document of the responses tried; x is its leaf
MetaDocOf(x) == Doc(x, Undefined, Undefined, NoSub)

\* the metadata keys the service sends, in the order of the response
ServiceMetaKeys == <<Warnings, Skipped, ContextEnhanced, NamespaceInfo>>
MetaForms == {"none", "object", "json"}

\* line 87: lang === 'warnings' || lang === 'namespaceInfo' || lang === 'skipped'
PassedThrough(lang) == lang \in {Warnings, NamespaceInfo, Skipped}

\* lines 87-88: result[lang] = jsonStr
KeepEntry(st, lang, e) ==
    IF e.form = "object" THEN AddEntry(st, lang, e.doc)
    ELSE [h |-> st.h, res |-> (lang :> e.text) @@ st.res]

\* mutant: a string entry is never parsed
ParseEntryNever(st, lang, e) == KeepEntry(st, lang, e)

\* lines 86-95: the body of the parse loop
ParseEntry(st, lang, e) ==
    IF PassedThrough(lang) THEN KeepEntry(st, lang, e)
    ELSE IF e.form = "json" THEN AddEntry(st, lang, e.doc)
    ELSE KeepEntry(st, lang, e)

RECURSIVE ParseFrom(_, _, _, _)
ParseFrom(st, body, order, i) ==
    IF i > Len(order) THEN st
    ELSE IF order[i] \in DOMAIN body
         THEN ParseFrom(ParseEntry(st, order[i], body[order[i]]), body, order, i + 1)
         ELSE ParseFrom(st, body, order, i + 1)

\* the order of the entries of the response body
EntryOrder == <<Pt, PtBR>> \o ServiceMetaKeys

\* the body of a response: an entry for the languages of present, and the
\* metadata entries in the form meta
BodyOf(present, ePt, eBR, meta) ==
    LET langs == [l \in present |-> IF l = Pt THEN ePt ELSE eBR]
        metaEntry == IF meta = "json" THEN JsonText(MetaDocOf(MetaText))
                     ELSE Structured(MetaDocOf(MetaText))
        metas == [k \in (IF meta = "none" THEN {} ELSE Elements(ServiceMetaKeys)) |-> metaEntry]
    IN langs @@ metas

\* lines 56-96: the response is a success; every entry goes through the
\* parse loop
Answer(present, ePt, eBR, meta) ==
    /\ pc = "resolved"
    /\ LET body == BodyOf(present, ePt, eBR, meta)
           parsed == ParseFrom([h |-> heap, res |-> <<>>], body, EntryOrder, 1)
       IN /\ heap' = parsed.h
          /\ result' = parsed.res
          /\ response' = [ok |-> TRUE, status |-> 200, statusText |-> "OK", body |-> body]
    /\ pc' = "parsed"
    /\ requests' = requests + 1
    /\ UNCHANGED <<targetLanguages, fallbackToSource, regionalFallback,
                   processedTargets, regionalMap, sourceContent, fallbackInfo,
                   attached, rawHeap, rawResult, planVars, error>>

\* lines 56-96: the service answers with JSON texts
Respond ==
    \E present \in SUBSET Langs :
    \E dPt \in RawDocsOf(TextOf(Pt)), dBR \in RawDocsOf(TextOf(PtBR)) :
        Answer(present, JsonText(dPt), JsonText(dBR), "none")

\* a string of an error body is absent, empty or not
Absent == "(undefined)"
ErrorStrings == {Absent, "", "Invalid API key"}
FlatStrings == {Absent, "", "Bad request"}
ErrorCodes == {Absent, "INVALID_KEY"}
StatusTexts == {"", "Unauthorized"}
Statuses == {401, 500}

\* the bodies of the failure responses: parsed is FALSE when
\* response.json() rejects
ErrorBodies ==
    [message : FlatStrings, parsed : {TRUE}, errorMessage : ErrorStrings,
     errorCode : ErrorCodes]
    \cup
    [message : {Absent}, parsed : {FALSE}, errorMessage : {Absent}, errorCode : {Absent}]

\* JavaScript truthiness of a string that may be absent
StringTruthy(x) == x \notin {Absent, ""}

\* line 75: response.json().catch(() => ({ error: { message: statusText } }))
ErrorData(body, statusText) ==
    IF body.parsed THEN body
    ELSE [message |-> Absent, parsed |-> FALSE, errorMessage |-> statusText,
          errorCode |-> Absent]

\* mutant: the flat message is preferred to error.message
ErrorMessageFlatFirst(errorData, statusText) ==
    IF StringTruthy(errorData.message) THEN <<errorData.message>>
    ELSE IF StringTruthy(errorData.errorMessage) THEN <<errorData.errorMessage>>
    ELSE <<"Translation failed: ", statusText>>

\* line 76: errorData.error?.message || errorData.message ||
\* `Translation failed: ${response.statusText}`, as the pieces of the string
ErrorMessage(errorData, statusText) ==
    IF StringTruthy(errorData.errorMessage) THEN <<errorData.errorMessage>>
    ELSE IF StringTruthy(errorData.message) THEN <<errorData.message>>
    ELSE <<"Translation failed: ", statusText>>

\* lines 74-80: the response is not a success; translateJSON throws
Fail ==
    /\ pc = "resolved"
    /\ \E body \in ErrorBodies, statusText \in StatusTexts, status \in Statuses :
          LET errorData == ErrorData(body, statusText)
          IN /\ response' = [ok |-> FALSE, status |-> status,
                             statusText |-> statusText, body |-> body]
             /\ error' = [status |-> status,
                          message |-> ErrorMessage(errorData, statusText),
                          code |-> errorData.errorCode]
    /\ pc' = "rejected"
    /\ requests' = requests + 1
    /\ UNCHANGED <<targetLanguages, fallbackToSource, regionalFallback,
                   processedTargets, regionalMap, heap, sourceContent, result,
                   fallbackInfo, attached, rawHeap, rawResult, planVars>>

\* lines 99-108 and 141-212: applyFallbacks runs to its return or to a throw
Reconcile ==
    /\ pc = "parsed"
    /\ LET out == ApplyFallbacks(heap, result)
       IN /\ heap' = out.h
          /\ result' = out.res
          /\ fallbackInfo' = out.info
          /\ attached' = (out.ok /\ out.info.used)
          /\ pc' = IF out.ok THEN "done" ELSE "threw"
    /\ rawHeap' = heap
    /\ rawResult' = result
    /\ UNCHANGED <<targetLanguages, fallbackToSource, regionalFallback,
                   processedTargets, regionalMap, sourceContent, planVars, requests,
                   response, error>>

Next == Reject \/ Resolve \/ Respond \/ Fail \/ Reconcile

Spec == Init /\ [][Next]_vars

\* translateJSON over the forms an entry of the response may take
MaxEntryTargets == 2

\* the documents of the entries tried; x is the language's string
EntryDocsOf(x) ==
    { Doc(Undefined, Undefined, Undefined, NoSub),       \* {}
      Doc(x, Undefined, Undefined, NoSub),               \* {a:"X"}
      Doc(x, ObjectCode, Undefined, Sub(x, x)) }         \* {a:"X", b:{a:"X", b:"X"}}

\* the strings that JSON.parse rejects
NotJsonTexts == {PlainText, EmptyString}

EntriesOf(lang) ==
    {JsonText(d) : d \in EntryDocsOf(TextOf(lang))}
    \cup {Structured(d) : d \in EntryDocsOf(TextOf(lang))}
    \cup {NotJson(t) : t \in NotJsonTexts}

InitEntries ==
    /\ Init
    /\ apiKey
    /\ Len(targetLanguages) <= MaxEntryTargets

\* lines 56-96: the service answers with entries of any form
RespondEntries ==
    \E present \in SUBSET Langs :
    \E ePt \in EntriesOf(Pt), eBR \in EntriesOf(PtBR) :
        Answer(present, ePt, eBR, "none")

NextEntries == Resolve \/ RespondEntries \/ Reconcile

SpecEntries == InitEntries /\ [][NextEntries]_vars

\* processRegionalLanguages on its own, over a wider set of language codes
InitResolver ==
    /\ pc = "start"
    /\ apiKey = TRUE
    /\ NoConfigState
    /\ targetLanguages \in ListsOver(ResolverLangs, MaxResolverTargets)
    /\ regionalFallback \in BOOLEAN
    /\ fallbackToSource = TRUE
    /\ processedTargets = <<>>
    /\ regionalMap = <<>>
    /\ heap = <<>>
    /\ sourceContent = Undefined
    /\ result = <<>>
    /\ fallbackInfo = NoFallbackInfo
    /\ attached = FALSE
    /\ rawHeap = <<>>
    /\ rawResult = <<>>
    /\ json = sourceContent
    /\ NoCommandState

NextResolver == Resolve

SpecResolver == InitResolver /\ [][NextResolver]_vars

---------------------------------------------------------------------------
(* Flattener and Tree Differ (utils/incremental.js) *)

\* flattenObject(obj, prefix): the flat map, dot-path -> leaf value
RECURSIVE FlattenFrom(_, _, _, _)
FlattenFrom(h, obj, prefix, i) ==
    IF i > Len(KeyOrder) THEN <<>>
    ELSE LET key == KeyOrder[i]
             value == h[obj].f[key]
             newKey == prefix \o key
             rest == FlattenFrom(h, obj, prefix, i + 1)
         IN IF value = Undefined THEN rest
            ELSE IF IsMapping(h, value)
            THEN rest @@ FlattenFrom(h, value, newKey, 1)
            ELSE rest @@ (newKey :> value)

FlattenObject(h, obj) == FlattenFrom(h, obj, <<>>, 1)

\* mutant: the Tree Differ recursing into any object target, arrays included
RECURSIVE DiffFromAnyObject(_, _, _, _)
DiffFromAnyObject(h, source, target, i) ==
    IF i > Len(KeyOrder) THEN [h |-> h, f |-> NoFields]
    ELSE LET key == KeyOrder[i]
             sourceValue == h[source].f[key]
             targetValue == h[target].f[key]
         IN IF sourceValue = Undefined THEN DiffFromAnyObject(h, source, target, i + 1)
            ELSE IF IsMapping(h, sourceValue) /\ IsRef(targetValue)
            THEN LET nested == DiffFromAnyObject(h, sourceValue, targetValue, 1)
                     nonEmpty == \E k \in Keys : nested.f[k] # Undefined
                     h1 == IF nonEmpty
                           THEN Append(nested.h, [kind |-> "object", f |-> nested.f])
                           ELSE nested.h
                     rest == DiffFromAnyObject(h1, source, target, i + 1)
                 IN [h |-> rest.h,
                     f |-> IF nonEmpty THEN [rest.f EXCEPT ![key] = Len(h1)] ELSE rest.f]
            ELSE LET rest == DiffFromAnyObject(h, source, target, i + 1)
                 IN [h |-> rest.h,
                     f |-> IF targetValue \in {Undefined, Null, EmptyString}
                           THEN [rest.f EXCEPT ![key] = sourceValue]
                           ELSE rest.f]

\* findMissingKeys(source, target) of the incremental utilities: the nested
\* document of the source paths that are absent, null or "" in target
RECURSIVE DiffFrom(_, _, _, _)
DiffFrom(h, source, target, i) ==
    IF i > Len(KeyOrder) THEN [h |-> h, f |-> NoFields]
    ELSE LET key == KeyOrder[i]
             sourceValue == h[source].f[key]
             targetValue == h[target].f[key]
         IN IF sourceValue = Undefined THEN DiffFrom(h, source, target, i + 1)
            ELSE IF IsMapping(h, sourceValue) /\ IsMapping(h, targetValue)
            THEN LET nested == DiffFrom(h, sourceValue, targetValue, 1)
                     nonEmpty == \E k \in Keys : nested.f[k] # Undefined
                     h1 == IF nonEmpty
                           THEN Append(nested.h, [kind |-> "object", f |-> nested.f])
                           ELSE nested.h
                     rest == DiffFrom(h1, source, target, i + 1)
                 IN [h |-> rest.h,
                     f |-> IF nonEmpty THEN [rest.f EXCEPT ![key] = Len(h1)] ELSE rest.f]
            ELSE LET rest == DiffFrom(h, source, target, i + 1)
                 IN [h |-> rest.h,
                     f |-> IF targetValue \in {Undefined, Null, EmptyString}
                           THEN [rest.f EXCEPT ![key] = sourceValue]
                           ELSE rest.f]

TreeDiffer(h, source, target) ==
    LET d == DiffFrom(h, source, target, 1)
    IN [h |-> Append(d.h, [kind |-> "object", f |-> d.f]), root |-> Len(d.h) + 1]

\* the dot-paths a flat map may hold, in iteration order
Kbb == <<"b", "b">>
PathOrder == <<Ka, Kb, Kba, Kbb>>

\* unflattenObject, one flat path: split on ".", walk or create the
\* intermediate mappings, assign the leaf at the last segment
RECURSIVE UnflattenPath(_, _, _, _, _)
UnflattenPath(h, current, parts, i, value) ==
    IF i = Len(parts)
    THEN [h EXCEPT ![current].f[<<parts[i]>>] = value]
    ELSE LET part == <<parts[i]>>
             cv == h[current].f[part]
         IN IF ~IsMapping(h, cv)
            THEN UnflattenPath(Append([h EXCEPT ![current].f[part] = Len(h) + 1], EmptyObject),
                               Len(h) + 1, parts, i + 1, value)
            ELSE UnflattenPath(h, cv, parts, i + 1, value)

RECURSIVE UnflattenFrom(_, _, _, _)
UnflattenFrom(h, root, flat, i) ==
    IF i > Len(PathOrder) THEN h
    ELSE IF PathOrder[i] \in DOMAIN flat
         THEN UnflattenFrom(UnflattenPath(h, root, PathOrder[i], 1, flat[PathOrder[i]]),
                            root, flat, i + 1)
         ELSE UnflattenFrom(h, root, flat, i + 1)

\* unflattenObject(obj): the nested document of a flat map
UnflattenObject(h, flat) ==
    [h |-> UnflattenFrom(Append(h, EmptyObject), Len(h) + 1, flat, 1),
     root |-> Len(h) + 1]

\* mutant: deepMerge replacing a nested mapping instead of merging into it
RECURSIVE MergeFromShallow(_, _, _, _)
MergeFromShallow(h, target, source, i) ==
    IF i > Len(KeyOrder) THEN [h |-> h, f |-> h[target].f]
    ELSE LET key == KeyOrder[i]
             sourceValue == h[source].f[key]
             rest == MergeFromShallow(h, target, source, i + 1)
         IN IF sourceValue = Undefined THEN rest
            ELSE [h |-> rest.h, f |-> [rest.f EXCEPT ![key] = sourceValue]]

\* mutant: deepMerge starting from an empty result instead of a copy of target
RECURSIVE MergeFromSourceOnly(_, _, _, _)
MergeFromSourceOnly(h, target, source, i) ==
    IF i > Len(KeyOrder) THEN [h |-> h, f |-> NoFields]
    ELSE LET key == KeyOrder[i]
             sourceValue == h[source].f[key]
             rest == MergeFromSourceOnly(h, target, source, i + 1)
         IN IF sourceValue = Undefined THEN rest
            ELSE [h |-> rest.h, f |-> [rest.f EXCEPT ![key] = sourceValue]]

\* deepMerge(target, source), the loop over the keys of source: a copy of
\* target in which source's keys are merged (both values non-array mappings)
\* or overwritten
RECURSIVE MergeFrom(_, _, _, _)
MergeFrom(h, target, source, i) ==
    IF i > Len(KeyOrder) THEN [h |-> h, f |-> h[target].f]
    ELSE LET key == KeyOrder[i]
             sourceValue == h[source].f[key]
             targetValue == h[target].f[key]
         IN IF sourceValue = Undefined THEN MergeFrom(h, target, source, i + 1)
            ELSE IF IsMapping(h, sourceValue) /\ IsMapping(h, targetValue)
            THEN LET nested == MergeFrom(h, targetValue, sourceValue, 1)
                     h1 == Append(nested.h, [kind |-> "object", f |-> nested.f])
                     rest == MergeFrom(h1, target, source, i + 1)
                 IN [h |-> rest.h, f |-> [rest.f EXCEPT ![key] = Len(h1)]]
            ELSE LET rest == MergeFrom(h, target, source, i + 1)
                 IN [h |-> rest.h, f |-> [rest.f EXCEPT ![key] = sourceValue]]

DeepMerge(h, target, source) ==
    LET m == MergeFrom(h, target, source, 1)
    IN [h |-> Append(m.h, [kind |-> "object", f |-> m.f]), root |-> Len(m.h) + 1]

---------------------------------------------------------------------------
(* The utilities applied to documents on their own *)

\* a non-blank string of a previously saved document
SavedText == -6

UtilDocsOf(x) == RawDocsOf(x) \cup SourceDocsOf(x)

utilFrame == <<targetLanguages, fallbackToSource, regionalFallback,
               processedTargets, regionalMap, sourceContent, result,
               fallbackInfo, attached, rawResult, json, targetDoc, files,
               existingTranslations, allMissingKeys, incrementalStats,
               outputTranslations, requests, apiKey, input, savedByName, configVars,
               response, error>>

\* two documents; the second may be the first one itself
InitUtils ==
    /\ pc = "util"
    /\ \E d \in UtilDocsOf(SourceText), e \in UtilDocsOf(SavedText), same \in BOOLEAN :
          LET b == Build(<<>>, d)
              t == IF same THEN b ELSE Build(b.h, e)
          IN /\ heap = t.h
             /\ json = b.root
             /\ targetDoc = t.root
    /\ targetLanguages = <<>>
    /\ fallbackToSource = TRUE
    /\ regionalFallback = TRUE
    /\ processedTargets = <<>>
    /\ regionalMap = <<>>
    /\ sourceContent = Undefined
    /\ result = <<>>
    /\ fallbackInfo = NoFallbackInfo
    /\ attached = FALSE
    /\ rawHeap = <<>>
    /\ rawResult = <<>>
    /\ returned = Undefined
    /\ files = <<>>
    /\ existingTranslations = <<>>
    /\ allMissingKeys = <<>>
    /\ incrementalStats = NoStats
    /\ outputTranslations = <<>>
    /\ requests = 0
    /\ apiKey = TRUE
    /\ input = "none"
    /\ savedByName = FALSE
    /\ response = NoResponse
    /\ error = NoError
    /\ NoConfigState

\* unflattenObject(flattenObject(json))
FlattenUnflatten ==
    /\ pc = "util"
    /\ LET u == UnflattenObject(heap, FlattenObject(heap, json))
       IN /\ heap' = u.h
          /\ returned' = u.root
    /\ pc' = "unflattened"
    /\ rawHeap' = heap
    /\ UNCHANGED utilFrame

\* findMissingKeys(json, targetDoc)
FindMissing ==
    /\ pc = "util"
    /\ LET d == TreeDiffer(heap, json, targetDoc)
       IN /\ heap' = d.h
          /\ returned' = d.root
    /\ pc' = "diffed"
    /\ rawHeap' = heap
    /\ UNCHANGED utilFrame

\* deepMerge(targetDoc, json)
Merge ==
    /\ pc = "util"
    /\ LET m == DeepMerge(heap, targetDoc, json)
       IN /\ heap' = m.h
          /\ returned' = m.root
    /\ pc' = "merged"
    /\ rawHeap' = heap
    /\ UNCHANGED utilFrame

NextUtils == FlattenUnflatten \/ FindMissing \/ Merge

SpecUtils == InitUtils /\ [][NextUtils]_vars

---------------------------------------------------------------------------
(* The translate command in incremental mode (commands/translate.js) *)

MaxCommandTargets == 2

\* the documents a previous run may have saved for a language
SavedDocsOf(x) ==
    { Doc(x, Undefined, Undefined, NoSub),               \* {a:"S"}
      Doc(x, x, Undefined, NoSub),                       \* {a:"S", b:"S"}
      Doc(EmptyString, x, Undefined, NoSub),             \* {a:"", b:"S"}
      Doc(x, ObjectCode, Undefined, Sub(x, Undefined)),  \* {a:"S", b:{a:"S"}}
      Doc(x, ObjectCode, Undefined, Sub(x, x)) }         \* {a:"S", b:{a:"S", b:"S"}}

\* the documents the service returns to the command for a language
CommandRawDocsOf(x) ==
    { Doc(Undefined, Undefined, Undefined, NoSub),       \* {}
      Doc(Undefined, x, Undefined, NoSub),               \* {b:"X"}
      Doc(x, x, Undefined, NoSub),                       \* {a:"X", b:"X"}
      Doc(x, ObjectCode, Undefined, Sub(x, x)) }         \* {a:"X", b:{a:"X", b:"X"}}

\* lines 111-130: the saved documents of the requested languages;
\* <output>/<lang>/<name>.json (byName) is preferred to <output>/<lang>.json
\* (byLang)
LoadExisting(byName, byLang, targets) ==
    [lang \in {l \in DOMAIN byName \cup DOMAIN byLang : Includes(targets, l)} |->
        IF lang \in DOMAIN byName THEN byName[lang] ELSE byLang[lang]]

\* the two locations of the output directory
FilesByName == IF savedByName THEN files ELSE <<>>
FilesByLang == IF savedByName THEN <<>> ELSE files

\* mutant: a language with a saved document is taken to miss nothing
PlanLanguageNewOnly(acc, lang, loaded) ==
    LET saved == Truthy(Lookup(loaded, lang))
        h1 == IF saved THEN acc.h ELSE Append(acc.h, EmptyObject)
        existing == IF saved THEN loaded[lang] ELSE Len(h1)
        missing == TreeDiffer(h1, json, existing)
        missingFlat == FlattenObject(missing.h, missing.root)
    IN [h |-> missing.h, all |-> IF saved THEN acc.all ELSE acc.all @@ missingFlat]

\* lines 134-144: the body of the loop that collects allMissingKeys
PlanLanguage(acc, lang, loaded) ==
    LET saved == Truthy(Lookup(loaded, lang))
        h1 == IF saved THEN acc.h ELSE Append(acc.h, EmptyObject)
        existing == IF saved THEN loaded[lang] ELSE Len(h1)
        missing == TreeDiffer(h1, json, existing)
        missingFlat == FlattenObject(missing.h, missing.root)
    IN [h |-> missing.h, all |-> acc.all @@ missingFlat]

RECURSIVE PlanFrom(_, _, _, _)
PlanFrom(acc, i, targets, loaded) ==
    IF i > Len(targets) THEN acc
    ELSE PlanFrom(PlanLanguage(acc, targets[i], loaded), i + 1, targets, loaded)

\* mutant: total counted over the top-level keys of the source
StatsOfTopLevel(h, source, all) ==
    LET sourceKeyCount == Len(ObjectKeys(h, source))
        missingKeyCount == Cardinality(DOMAIN all)
    IN [total |-> sourceKeyCount,
        existing |-> sourceKeyCount - missingKeyCount,
        toTranslate |-> missingKeyCount]

\* lines 107-108 and 146-148: incrementalStats
StatsOf(h, source, all) ==
    LET sourceKeyCount == Cardinality(DOMAIN FlattenObject(h, source))
        missingKeyCount == Cardinality(DOMAIN all)
    IN [total |-> sourceKeyCount,
        existing |-> sourceKeyCount - missingKeyCount,
        toTranslate |-> missingKeyCount]

\* mutant: the command never takes the early return
NeverUpToDate(all) == FALSE

\* line 150: missingKeyCount === 0
UpToDate(all) == Cardinality(DOMAIN all) = 0

\* the states of the <input> file
Inputs == {"ok", "missing", "invalid"}

\* the command is started: the source document of <input>, when it can be
\* read, and the documents of the output directory
CommandStart ==
    /\ pc = "command"
    /\ fallbackToSource \in BOOLEAN
    /\ regionalFallback \in BOOLEAN
    /\ \E d \in SourceDocs :
       \E savedLangs \in SUBSET Langs :
       \E ePt \in SavedDocsOf(SavedText), eBR \in SavedDocsOf(SavedText) :
          LET b == IF input = "ok" THEN Build(<<>>, d)
                   ELSE [h |-> <<>>, root |-> Undefined]
              s0 == [h |-> b.h, res |-> <<>>]
              s1 == IF Pt \in savedLangs THEN AddEntry(s0, Pt, ePt) ELSE s0
              s2 == IF PtBR \in savedLangs THEN AddEntry(s1, PtBR, eBR) ELSE s1
          IN /\ heap = s2.h
             /\ json = b.root
             /\ files = s2.res
    /\ sourceContent = Undefined
    /\ processedTargets = <<>>
    /\ regionalMap = <<>>
    /\ result = <<>>
    /\ fallbackInfo = NoFallbackInfo
    /\ attached = FALSE
    /\ rawHeap = <<>>
    /\ rawResult = <<>>
    /\ targetDoc = Undefined
    /\ returned = Undefined
    /\ existingTranslations = <<>>
    /\ allMissingKeys = <<>>
    /\ incrementalStats = NoStats
    /\ outputTranslations = <<>>
    /\ requests = 0
    /\ response = NoResponse
    /\ error = NoError
    /\ NoConfigState

\* an incremental run whose preconditions hold, over documents saved as
\* <output>/<lang>.json
InitTranslate ==
    /\ targetLanguages \in ListsOver(Langs, MaxCommandTargets)
    /\ apiKey = TRUE
    /\ input = "ok"
    /\ savedByName = FALSE
    /\ CommandStart

\* line 35: !apiKey; line 44: !existsSync(input); lines 51-57: JSON.parse
\* of the file's content throws
PreconditionFails == MissingKey \/ input # "ok"

\* lines 35-57: spinner.fail(), logger.error(...), process.exit(1)
Exit ==
    /\ pc = "command"
    /\ PreconditionFails
    /\ pc' = "exited"
    /\ UNCHANGED <<targetLanguages, fallbackToSource, regionalFallback,
                   processedTargets, regionalMap, heap, sourceContent, result,
                   fallbackInfo, attached, rawHeap, rawResult, planVars, requests,
                   response, error>>

\* lines 104-163: load the saved documents, collect the missing keys, and
\* either return (nothing to translate) or pass jsonToTranslate on to
\* translateJSON
Plan ==
    /\ pc = "command"
    /\ ~PreconditionFails
    /\ LET loaded == LoadExisting(FilesByName, FilesByLang, targetLanguages)
           planned == PlanFrom([h |-> heap, all |-> <<>>], 1, targetLanguages, loaded)
           jsonToTranslate == UnflattenObject(planned.h, planned.all)
       IN /\ existingTranslations' = loaded
          /\ allMissingKeys' = planned.all
          /\ incrementalStats' = StatsOf(heap, json, planned.all)
          /\ IF UpToDate(planned.all)
             THEN /\ pc' = "uptodate"
                  /\ heap' = planned.h
                  /\ sourceContent' = sourceContent
             ELSE /\ pc' = "start"
                  /\ heap' = jsonToTranslate.h
                  /\ sourceContent' = jsonToTranslate.root
    /\ UNCHANGED <<targetLanguages, fallbackToSource, regionalFallback,
                   processedTargets, regionalMap, result, fallbackInfo, attached,
                   rawHeap, rawResult, json, targetDoc, returned, files,
                   outputTranslations, requests, apiKey, input, savedByName,
                   configVars, response, error>>

\* api.js lines 56-96: the service answers the command's request
RespondToCommand ==
    \E present \in SUBSET Langs :
    \E dPt \in CommandRawDocsOf(TextOf(Pt)), dBR \in CommandRawDocsOf(TextOf(PtBR)) :
        Answer(present, JsonText(dPt), JsonText(dBR), "none")

\* line 195: the keys of translations that are not written
Reserved(langCode) ==
    langCode \in {Warnings, FallbackInfoKey, NamespaceInfo, Skipped, ContextEnhanced}

\* Object.entries(translations): the entries of the response, then the
\* fallbackInfo that applyFallbacks attached
TranslationKeys == EntryOrder \o <<FallbackInfoKey>>

\* lines 194-202: finalContent of every language entry of translations, in
\* the order of langs
RECURSIVE OutputFrom(_, _, _)
OutputFrom(acc, langs, i) ==
    IF i > Len(langs) THEN acc
    ELSE LET langCode == langs[i]
             isEntry == langCode \in DOMAIN result
                        \/ (langCode = FallbackInfoKey /\ attached)
             content == Lookup(result, langCode)
             merge == Truthy(Lookup(existingTranslations, langCode))
             merged == DeepMerge(acc.h, existingTranslations[langCode], content)
         IN IF ~isEntry \/ Reserved(langCode) THEN OutputFrom(acc, langs, i + 1)
            ELSE IF merge
            THEN OutputFrom([h |-> merged.h, out |-> (langCode :> merged.root) @@ acc.out],
                            langs, i + 1)
            ELSE OutputFrom([h |-> acc.h, out |-> (langCode :> content) @@ acc.out],
                            langs, i + 1)

\* lines 185-235: every language entry of translations is written, as
\* <output>/<langCode>.json or as the ZIP entry <langCode>.json
Write ==
    /\ pc = "done"
    /\ LET w == OutputFrom([h |-> heap, out |-> <<>>], TranslationKeys, 1)
       IN /\ heap' = w.h
          /\ outputTranslations' = w.out
    /\ pc' = "written"
    /\ UNCHANGED <<targetLanguages, fallbackToSource, regionalFallback,
                   processedTargets, regionalMap, sourceContent, result,
                   fallbackInfo, attached, rawHeap, rawResult, json, targetDoc,
                   returned, files, existingTranslations, allMissingKeys,
                   incrementalStats, requests, apiKey, input, savedByName, configVars,
                   response, error>>

NextTranslate == Plan \/ Resolve \/ RespondToCommand \/ Reconcile \/ Write

SpecTranslate == InitTranslate /\ [][NextTranslate]_vars

\* translateJSON and the translate command from every way they are
\* entered: translateJSON called without an API key, and the command with
\* or without an API key, over the states of <input>, with the saved
\* documents at either location of the output directory
MaxCallTargets == 1

InitCommand ==
    \/ /\ Init
       /\ MissingKey
       /\ Len(targetLanguages) <= MaxCallTargets
    \/ /\ targetLanguages \in ListsOver(Langs, MaxCallTargets)
       /\ apiKey \in BOOLEAN
       /\ input \in Inputs
       /\ savedByName \in BOOLEAN
       /\ CommandStart
       /\ (files = <<>> => ~savedByName)

\* api.js lines 56-96: the service answers the command's request, with or
\* without metadata entries
RespondWithMetadata ==
    \E present \in SUBSET Langs, meta \in MetaForms :
    \E dPt \in CommandRawDocsOf(TextOf(Pt)), dBR \in CommandRawDocsOf(TextOf(PtBR)) :
        Answer(present, JsonText(dPt), JsonText(dBR), meta)

NextCommand ==
    Reject \/ Exit \/ Plan \/ Resolve \/ RespondWithMetadata \/ Reconcile \/ Write

SpecCommand == InitCommand /\ [][NextCommand]_vars

---------------------------------------------------------------------------
(* getConfig as a state machine *)

\* the SHIPI18N_* variables: each is not set, or set to a non-empty string
Envs ==
    [targetLanguages : {UndefinedValue, Str("es,fr")},
     apiKey : {UndefinedValue, Str("sk_env")},
     sourceLanguage : {UndefinedValue, Str("fr")},
     outputDir : {UndefinedValue, Str("./i18n")},
     saveKeys : {UndefinedValue, Str("true"), Str("false")}]

\* the mappings a config file may hold: each key is defined or not
FileMappings ==
    [targetLanguages : {UndefinedValue, List(<<"ja", "ko">>)},
     apiKey : {UndefinedValue, Str("sk_file")},
     sourceLanguage : {UndefinedValue, Str("de")},
     outputDir : {UndefinedValue, Str("./translations")},
     saveKeys : {UndefinedValue, Bool(TRUE)}]

FileConfigs ==
    {NoFile, BadFile} \cup {[state |-> "mapping", keys |-> m] : m \in FileMappings}

InitConfig ==
    /\ pc = "config"
    /\ env \in Envs
    /\ fileConfig \in FileConfigs
    /\ config = NoConfig
    /\ apiKey = TRUE
    /\ targetLanguages = <<>>
    /\ fallbackToSource = TRUE
    /\ regionalFallback = TRUE
    /\ processedTargets = <<>>
    /\ regionalMap = <<>>
    /\ heap = <<>>
    /\ sourceContent = Undefined
    /\ result = <<>>
    /\ fallbackInfo = NoFallbackInfo
    /\ attached = FALSE
    /\ rawHeap = <<>>
    /\ rawResult = <<>>
    /\ json = Undefined
    /\ NoCommandState

\* lines 12-39: getConfig()
GetConfig ==
    /\ pc = "config"
    /\ config' = GetConfigFrom(env, fileConfig)
    /\ pc' = "configured"
    /\ UNCHANGED <<targetLanguages, fallbackToSource, regionalFallback,
                   processedTargets, regionalMap, heap, sourceContent, result,
                   fallbackInfo, attached, rawHeap, rawResult, json, targetDoc,
                   returned, files, existingTranslations, allMissingKeys,
                   incrementalStats, outputTranslations, requests, apiKey, input,
                   savedByName, env, fileConfig, response, error>>

NextConfig == GetConfig

SpecConfig == InitConfig /\ [][NextConfig]_vars

---------------------------------------------------------------------------
(* Vocabulary of the properties *)

Requested == {targetLanguages[i] : i \in DOMAIN targetLanguages}

\* the value v of heap h as a tree, for comparing documents structurally
RECURSIVE Snap(_, _)
Snap(h, v) ==
    IF IsRef(v)
    THEN [kind |-> h[v].kind, leaf |-> Undefined,
          f |-> [k \in {x \in Keys : h[v].f[x] # Undefined} |-> Snap(h, h[v].f[k])]]
    ELSE [kind |-> "leaf", f |-> <<>>, leaf |-> v]

FinalDoc(lang) == Snap(heap, Lookup(result, lang))
RawDoc(lang) == Snap(rawHeap, Lookup(rawResult, lang))
SourceDoc == Snap(rawHeap, sourceContent)

RawEmpty(lang) == IsEmptyResult(rawHeap, Lookup(rawResult, lang))

\* the loop's state when it reaches the i-th requested language
Before(i) ==
    ReconcileFrom([h |-> rawHeap, res |-> rawResult, info |-> NoFallbackInfo,
                   ok |-> TRUE], 1, i - 1)

FirstOccurrence(i) == \A j \in 1..(i - 1) : targetLanguages[j] # targetLanguages[i]

\* the i-th requested language has a mapped base language whose result is a
\* non-empty document when the loop reaches it
BaseAvailableAt(i) ==
    LET lang == targetLanguages[i]
        st == Before(i)
    IN /\ HasBase(lang)
       /\ ~IsEmptyResult(st.h, Lookup(st.res, regionalMap[lang]))

\* p is a path of the document: a key of its flat map, or a path that
\* getNestedValue resolves
HasPath(h, doc, p) ==
    \/ p \in DOMAIN FlattenObject(h, doc)
    \/ GetNestedValue(h, doc, p) # Undefined

\* the value a document holds at a dot-path: the flat map's entry, else what
\* getNestedValue resolves
ValueAt(h, doc, p) ==
    IF ~IsRef(doc) THEN Undefined
    ELSE IF p \in DOMAIN FlattenObject(h, doc) THEN FlattenObject(h, doc)[p]
    ELSE GetNestedValue(h, doc, p)

IsBlank(v) == v \in {Undefined, Null, EmptyString}

KeysFallbackOf(lang) ==
    IF lang \in DOMAIN fallbackInfo.keysFallback
    THEN Elements(fallbackInfo.keysFallback[lang]) ELSE {}

Recorded(lang) ==
    \/ lang \in DOMAIN fallbackInfo.regionalFallbacks
    \/ lang \in DOMAIN fallbackInfo.keysFallback
    \/ Includes(fallbackInfo.languagesFallbackToSource, lang)

---------------------------------------------------------------------------
(* Properties *)

\* C1: with fallbackToSource enabled, after applyFallbacks every requested
\* language's document contains every leaf path of the source document.
C1_EveryLanguageComplete ==
    (pc = "done" /\ fallbackToSource) =>
        \A lang \in Requested :
            /\ lang \in DOMAIN result
            /\ \A p \in DOMAIN FlattenObject(heap, sourceContent) :
                   HasPath(heap, result[lang], p)

\* C2: a requested language whose raw result is absent or empty, with
\* regional fallback enabled and a mapped base language whose result is a
\* non-empty document, ends with exactly the base's raw document, is recorded
\* in regionalFallbacks and is not listed in languagesFallbackToSource.
C2_RegionalCopyEqualsRawBase ==
    (pc = "done") =>
        \A lang \in Requested :
            (RawEmpty(lang) /\ HasBase(lang) /\ ~RawEmpty(regionalMap[lang])) =>
                /\ FinalDoc(lang) = RawDoc(regionalMap[lang])
                /\ lang \in DOMAIN fallbackInfo.regionalFallbacks
                /\ fallbackInfo.regionalFallbacks[lang] = regionalMap[lang]
                /\ ~Includes(fallbackInfo.languagesFallbackToSource, lang)

C4_MissingPathsFilled ==
    (pc = "done" /\ fallbackToSource) =>
        \A lang \in Requested :
            ~RawEmpty(lang) =>
                \A p \in DOMAIN FlattenObject(rawHeap, sourceContent) :
                    IsBlank(ValueAt(rawHeap, rawResult[lang], p)) =>
                        LET baseLang == regionalMap[lang]
                            baseValues ==
                                IF HasBase(lang)
                                THEN {Snap(rawHeap, ValueAt(rawHeap, Lookup(rawResult, baseLang), p)),
                                      Snap(heap, ValueAt(heap, Lookup(result, baseLang), p))}
                                     \ {Snap(heap, Undefined)}
                                ELSE {}
                            sourceValue == Snap(rawHeap, ValueAt(rawHeap, sourceContent, p))
                            accepted ==
                                IF \E v \in baseValues : ~IsBlank(v.leaf) \/ v.kind # "leaf"
                                THEN baseValues
                                ELSE baseValues \cup {sourceValue}
                        IN Snap(heap, ValueAt(heap, result[lang], p)) \in accepted

\* C5: keysFallback[L] is exactly the flattened key set of the Tree Differ's
\* findMissingKeys(source, raw L), for every non-empty raw document L.
C5_KeysFallbackIsTreeDiff ==
    (pc = "done" /\ fallbackToSource) =>
        \A lang \in Requested :
            ~RawEmpty(lang) =>
                LET d == TreeDiffer(rawHeap, sourceContent, rawResult[lang])
                IN KeysFallbackOf(lang) = DOMAIN FlattenObject(d.h, d.root)

\* C6: applyFallbacks never changes the source document, whether it returns
\* or throws.
C6_SourceUnchanged ==
    (pc \in {"done", "threw"}) => Snap(heap, sourceContent) = SourceDoc

\* C6 happens: a repeated language was filled while its document shares a
\* nested object with the source document
C6_Witness ==
    /\ pc = "done"
    /\ \E i, j \in DOMAIN targetLanguages :
          /\ i < j /\ targetLanguages[i] = targetLanguages[j]
          /\ targetLanguages[i] \in DOMAIN fallbackInfo.keysFallback
          /\ IsRef(heap[sourceContent].f[Kb])
          /\ heap[result[targetLanguages[i]]].f[Kb] = heap[sourceContent].f[Kb]

\* C7: a language present in the results but not requested keeps its
\* document and is never recorded in fallbackInfo.
C7_UnrequestedUntouched ==
    (pc = "done") =>
        \A lang \in DOMAIN rawResult \ Requested :
            /\ FinalDoc(lang) = RawDoc(lang)
            /\ ~Recorded(lang)

\* C8: fallbackInfo.used is true iff one of regionalFallbacks,
\* languagesFallbackToSource, keysFallback is non-empty, and fallbackInfo is
\* attached to the returned result set iff used is true.
C8_UsedIffRecorded ==
    (pc = "done") =>
        /\ fallbackInfo.used <=>
              \/ DOMAIN fallbackInfo.regionalFallbacks # {}
              \/ Len(fallbackInfo.languagesFallbackToSource) > 0
              \/ DOMAIN fallbackInfo.keysFallback # {}
        /\ attached <=> fallbackInfo.used

\* C8 happens: only per-key fills were recorded, and fallbackInfo is attached
C8_Witness ==
    /\ pc = "done" /\ attached /\ fallbackInfo.used
    /\ DOMAIN fallbackInfo.keysFallback # {}
    /\ DOMAIN fallbackInfo.regionalFallbacks = {}
    /\ Len(fallbackInfo.languagesFallbackToSource) = 0

\* C9: with fallbackToSource disabled applyFallbacks does not throw, and a
\* requested language with no mapped base language holding a non-empty
\* result is left exactly as in the raw results and has no record in
\* fallbackInfo.
C9_GapIsNotAnError ==
    (pc \in {"done", "threw"} /\ ~fallbackToSource) =>
        /\ pc = "done"
        /\ \A i \in DOMAIN targetLanguages :
              ~BaseAvailableAt(i) =>
                  /\ Lookup(result, targetLanguages[i]) = Lookup(rawResult, targetLanguages[i])
                  /\ FinalDoc(targetLanguages[i]) = RawDoc(targetLanguages[i])
                  /\ ~Recorded(targetLanguages[i])

\* C9 happens: the base language stays absent and its regional variant,
\* mapped to it, stays partial
C9_Witness ==
    /\ pc = "done" /\ ~fallbackToSource /\ regionalFallback
    /\ targetLanguages = <<PtBR, Pt>>
    /\ Pt \notin DOMAIN result
    /\ PtBR \in DOMAIN result /\ ~RawEmpty(PtBR)
    /\ Len(FindMissingKeys(heap, sourceContent, result[PtBR])) > 0
    /\ ~fallbackInfo.used /\ ~attached

\* C10: processRegionalLanguages lists every requested language exactly once
\* and every synthesized base language at most once; with regional fallback
\* disabled it lists requested languages only.
C10_TargetsOnce ==
    (pc = "resolved") =>
        /\ \A lang \in Requested : Count(processedTargets, lang) = 1
        /\ \A lang \in Elements(processedTargets) \ Requested :
              /\ Count(processedTargets, lang) = 1
              /\ regionalFallback
              /\ \E r \in Requested : IsRegional(r) /\ BaseOf(r) = lang

\* C10 happens: a regional code is repeated, its base is synthesized once,
\* and another base is requested after its regional variant
C10_Witness ==
    /\ pc = "resolved" /\ regionalFallback
    /\ targetLanguages = <<PtBR, PtBR, PtPT>>
    /\ processedTargets = <<Pt, PtBR, PtPT>>

\* C11: with regional fallback enabled regionalMap has an entry exactly for
\* the requested languages that contain a '-', each mapped to the substring
\* before its first '-'; with regional fallback disabled it is empty.
C11_RegionalMapEntries ==
    (pc = "resolved") =>
        /\ regionalFallback =>
              /\ DOMAIN regionalMap = {lang \in Requested : Len(lang) > 1}
              /\ \A lang \in DOMAIN regionalMap : regionalMap[lang] = <<Head(lang)>>
        /\ ~regionalFallback => DOMAIN regionalMap = {}

\* C11 happens: a code with two '-' is mapped next to bare codes
C11_Witness ==
    /\ pc = "resolved" /\ regionalFallback
    /\ targetLanguages = <<De, ZhHansCN, PtBR>>
    /\ DOMAIN regionalMap = {ZhHansCN, PtBR}
    /\ regionalMap[ZhHansCN] = <<"zh">>

\* the flat map of a document with its values as trees
FlatSnap(h, doc) ==
    LET flat == FlattenObject(h, doc)
    IN [p \in DOMAIN flat |-> Snap(h, flat[p])]

EmptySnap == [kind |-> "object", f |-> <<>>, leaf |-> Undefined]

\* C17: unflattenObject(flattenObject(d)) equals d for every document d whose
\* keys contain no '.', including documents with arrays, null leaves and
\* empty nested mappings.
C17_RoundTrip ==
    (pc = "unflattened" /\ rawHeap[json].f[Kba] = Undefined) =>
        Snap(heap, returned) = Snap(rawHeap, json)

\* C18: findMissingKeys(source, target) holds exactly the source keys whose
\* target value is absent, null or "", each with its source value; where both
\* values are non-array mappings it holds the nested difference (when not
\* empty), and otherwise the key is compared as a single leaf.
C18_DiffExact ==
    (pc = "diffed") =>
        \A k \in Keys :
            LET sv == rawHeap[json].f[k]
                tv == rawHeap[targetDoc].f[k]
                rv == heap[returned].f[k]
            IN IF sv = Undefined THEN rv = Undefined
               ELSE IF IsMapping(rawHeap, sv) /\ IsMapping(rawHeap, tv)
               THEN LET missing == {j \in Keys : /\ rawHeap[sv].f[j] # Undefined
                                                 /\ IsBlank(rawHeap[tv].f[j])}
                    IN IF missing = {} THEN rv = Undefined
                       ELSE /\ IsMapping(heap, rv)
                            /\ \A j \in Keys :
                                  heap[rv].f[j] = IF j \in missing THEN rawHeap[sv].f[j]
                                                  ELSE Undefined
               ELSE IF IsBlank(tv) THEN Snap(heap, rv) = Snap(rawHeap, sv)
               ELSE rv = Undefined

\* C18 happens: both documents nest a mapping under b and one nested key of
\* the source is missing in the target, while a is present in both
C18_Witness ==
    /\ pc = "diffed"
    /\ IsMapping(rawHeap, rawHeap[json].f[Kb])
    /\ IsMapping(rawHeap, rawHeap[targetDoc].f[Kb])
    /\ ~IsBlank(rawHeap[targetDoc].f[Ka])
    /\ Snap(heap, returned) =
          [kind |-> "object", leaf |-> Undefined,
           f |-> (Kb :> [kind |-> "object", leaf |-> Undefined,
                         f |-> (Kb :> Snap(heap, SourceText))])]

\* C19: findMissingKeys(d, d) is the empty document, and the flattening of
\* findMissingKeys(d, {}) equals flattenObject(d), for every document d.
C19_DiffLaws ==
    (pc = "diffed") =>
        /\ (Snap(rawHeap, targetDoc) = Snap(rawHeap, json)) =>
               Snap(heap, returned) = EmptySnap
        /\ (Snap(rawHeap, targetDoc) = EmptySnap) =>
               FlatSnap(heap, returned) = FlatSnap(rawHeap, json)

\* C20: in deepMerge(target, source) a key present only in target keeps its
\* target value, a key of source whose two values are non-array mappings
\* holds their merge, and every other key of source holds source's value
\* (an array is source's array itself).
C20_MergeByKey ==
    (pc = "merged") =>
        \A k \in Keys :
            LET tv == rawHeap[targetDoc].f[k]
                sv == rawHeap[json].f[k]
                rv == heap[returned].f[k]
            IN IF sv = Undefined THEN Snap(heap, rv) = Snap(rawHeap, tv)
               ELSE IF IsMapping(rawHeap, sv) /\ IsMapping(rawHeap, tv)
               THEN /\ IsMapping(heap, rv)
                    /\ \A j \in Keys :
                          Snap(heap, heap[rv].f[j]) =
                              IF rawHeap[sv].f[j] # Undefined
                              THEN Snap(rawHeap, rawHeap[sv].f[j])
                              ELSE Snap(rawHeap, rawHeap[tv].f[j])
               ELSE /\ Snap(heap, rv) = Snap(rawHeap, sv)
                    /\ (IsRef(sv) /\ rawHeap[sv].kind = "array") => rv = sv

\* C20 happens: the nested mappings under b are merged key by key, and a key
\* of the target alone is kept
C20_Witness ==
    /\ pc = "merged"
    /\ IsMapping(heap, heap[returned].f[Kb])
    /\ heap[heap[returned].f[Kb]].f[Ka] = SavedText
    /\ heap[heap[returned].f[Kb]].f[Kb] = SourceText
    /\ rawHeap[json].f[Ka] = Undefined
    /\ heap[returned].f[Ka] = SavedText

\* the flat keys of findMissingKeys(json, saved document of lang, or {})
MissingFlatKeys(lang) ==
    LET h1 == Append(heap, EmptyObject)
        existing == IF lang \in DOMAIN files THEN files[lang] ELSE Len(h1)
        d == TreeDiffer(h1, json, existing)
    IN DOMAIN FlattenObject(d.h, d.root)

Planned == pc \notin {"command", "util"} /\ json # sourceContent

\* C12: in incremental mode the keys sent for translation are the union,
\* over the requested languages, of the flat keys of findMissingKeys(source,
\* existing[lang] or {}), each with its source value, and the document sent
\* is the unflattening of that flat map.
C12_SentKeysAreUnion ==
    Planned =>
        /\ DOMAIN allMissingKeys = UNION {MissingFlatKeys(lang) : lang \in Requested}
        /\ \A p \in DOMAIN allMissingKeys :
               /\ p \in DOMAIN FlattenObject(heap, json)
               /\ Snap(heap, allMissingKeys[p]) = FlatSnap(heap, json)[p]
        /\ (pc # "uptodate") =>
               /\ FlatSnap(heap, sourceContent) =
                      [p \in DOMAIN allMissingKeys |-> Snap(heap, allMissingKeys[p])]
               /\ \A p \in DOMAIN allMissingKeys :
                      Snap(heap, GetNestedValue(heap, sourceContent, p)) =
                          Snap(heap, allMissingKeys[p])

\* C12 happens: b is missing in pt-BR only, and it is sent although pt has it
C12_Witness ==
    /\ pc = "start"
    /\ targetLanguages = <<Pt, PtBR>>
    /\ MissingFlatKeys(Pt) = {}
    /\ MissingFlatKeys(PtBR) = {Kb}
    /\ DOMAIN allMissingKeys = {Kb}
    /\ heap[sourceContent].f[Kb] = SourceText
    /\ heap[sourceContent].f[Ka] = Undefined

\* C13: total is the number of leaf keys of the flattened source,
\* toTranslate the size of the combined missing set, existing (already
\* translated) their difference, and 0 <= toTranslate <= total.
C13_StatsAddUp ==
    Planned =>
        /\ incrementalStats.total = Cardinality(DOMAIN FlattenObject(heap, json))
        /\ incrementalStats.toTranslate =
               Cardinality(UNION {MissingFlatKeys(lang) : lang \in Requested})
        /\ incrementalStats.existing =
               incrementalStats.total - incrementalStats.toTranslate
        /\ 0 <= incrementalStats.toTranslate
        /\ incrementalStats.toTranslate <= incrementalStats.total

\* C13 happens: three source leaves, one missing in pt, another in pt-BR
C13_Witness ==
    /\ pc = "start"
    /\ incrementalStats = [total |-> 3, existing |-> 1, toTranslate |-> 2]
    /\ Cardinality(MissingFlatKeys(Pt)) = 1
    /\ Cardinality(MissingFlatKeys(PtBR)) = 2

\* C14: when the combined missing set is empty the command sends no request
\* to the translation service and writes no file.
C14_NothingMissingNoRequest ==
    (Planned /\ UNION {MissingFlatKeys(lang) : lang \in Requested} = {}) =>
        /\ pc = "uptodate"
        /\ requests = 0
        /\ outputTranslations = <<>>

\* C14 happens: both requested languages hold every source key
C14_Witness ==
    /\ pc = "uptodate"
    /\ targetLanguages = <<PtBR, Pt>>
    /\ DOMAIN existingTranslations = {Pt, PtBR}
    /\ incrementalStats.total = 3 /\ incrementalStats.toTranslate = 0
    /\ requests = 0 /\ outputTranslations = <<>>

\* C15: every language file written in incremental mode is the deep merge of
\* the language's previously saved document with its translated document, so
\* it holds every leaf path of the saved document; this includes a base
\* language added to the request for regional fallback.
C15_WrittenKeepsSavedPaths ==
    (pc = "written") =>
        \A lang \in DOMAIN outputTranslations :
            lang \in DOMAIN files =>
                /\ Snap(heap, outputTranslations[lang]) =
                      LET m == DeepMerge(heap, files[lang], result[lang])
                      IN Snap(m.h, m.root)
                /\ \A p \in DOMAIN FlattenObject(heap, files[lang]) :
                      HasPath(heap, outputTranslations[lang], p)

\* C16: for every requested language and every key with a non-blank value
\* in its previously saved document, the written output keeps that value.
C16_SavedValuesKept ==
    (pc = "written") =>
        \A lang \in Requested \cap DOMAIN outputTranslations :
            lang \in DOMAIN files =>
                \A p \in DOMAIN FlattenObject(heap, files[lang]) :
                    ~IsBlank(FlattenObject(heap, files[lang])[p]) =>
                        Snap(heap, ValueAt(heap, outputTranslations[lang], p)) =
                            FlatSnap(heap, files[lang])[p]

\* C21: deepMerge(d, {}) = d and deepMerge({}, d) = d for every document d.
C21_EmptyIsIdentity ==
    (pc = "merged") =>
        /\ (Snap(rawHeap, json) = EmptySnap) =>
               Snap(heap, returned) = Snap(rawHeap, targetDoc)
        /\ (Snap(rawHeap, targetDoc) = EmptySnap) =>
               Snap(heap, returned) = Snap(rawHeap, json)

\* C21 happens: a document with a nested mapping is merged with {}
C21_Witness ==
    /\ pc = "merged"
    /\ Snap(rawHeap, json) = EmptySnap
    /\ IsMapping(rawHeap, rawHeap[targetDoc].f[Kb])
    /\ heap[returned].f[Ka] = SavedText
    /\ IsMapping(heap, heap[returned].f[Kb])

\* applyFallbacks run over the raw results with the requested languages in
\* another order
RECURSIVE ReconcileInOrder(_, _, _)
ReconcileInOrder(acc, order, i) ==
    IF i > Len(order) \/ ~acc.ok THEN acc
    ELSE ReconcileInOrder(ReconcileLanguage(acc, order[i]), order, i + 1)

Reorderings ==
    {[i \in DOMAIN targetLanguages |-> targetLanguages[pi[i]]] :
        pi \in Permutations(DOMAIN targetLanguages)}

KeysFallbackSets(info) ==
    [lang \in DOMAIN info.keysFallback |-> Elements(info.keysFallback[lang])]

\* C28: for every permutation of the requested-language list, applyFallbacks
\* over the same raw results, source and flags ends with the same documents,
\* the same regionalFallbacks, the same set of languagesFallbackToSource and
\* the same keysFallback.
C28_OrderIndependent ==
    (pc = "done") =>
        \A order \in Reorderings :
            LET out == ReconcileInOrder([h |-> rawHeap, res |-> rawResult,
                                         info |-> NoFallbackInfo, ok |-> TRUE], order, 1)
            IN /\ out.ok
               /\ DOMAIN out.res = DOMAIN result
               /\ \A lang \in DOMAIN result : Snap(out.h, out.res[lang]) = FinalDoc(lang)
               /\ out.info.regionalFallbacks = fallbackInfo.regionalFallbacks
               /\ Elements(out.info.languagesFallbackToSource) =
                      Elements(fallbackInfo.languagesFallbackToSource)
               /\ KeysFallbackSets(out.info) = KeysFallbackSets(fallbackInfo)

\* C29: for every requested language and every path at which its raw
\* document holds a non-blank leaf, its final document holds the same value
\* at that path.
C29_TranslationsKept ==
    (pc = "done") =>
        \A lang \in Requested \cap DOMAIN rawResult :
            \A p \in DOMAIN FlattenObject(rawHeap, rawResult[lang]) :
                LET v == FlattenObject(rawHeap, rawResult[lang])[p]
                IN (~IsRef(v) /\ ~IsBlank(v)) =>
                       /\ p \in DOMAIN FlattenObject(heap, result[lang])
                       /\ FlattenObject(heap, result[lang])[p] = v

C26_EnvOverFile ==
    pc = "configured" =>
        \A k \in ConfigKeys :
            IF env[k].t # "undefined"
            THEN config[k] = (IF k = "targetLanguages" THEN List(<<"es", "fr">>)
                              ELSE IF k = "saveKeys" THEN Bool(env[k].v = <<"true">>)
                              ELSE env[k])
            ELSE (fileConfig.state = "mapping" /\ fileConfig.keys[k].t # "undefined")
                 => config[k] = fileConfig.keys[k]

\* the tree a document literal stands for
LeafSnap(v) == [kind |-> "leaf", f |-> <<>>, leaf |-> v]
DocSnap(d) ==
    [kind |-> "object", leaf |-> Undefined,
     f |-> [k \in {x \in Keys : d.top[x] # Undefined} |->
              IF k = Kb /\ d.top[Kb] = ObjectCode
              THEN [kind |-> "object", leaf |-> Undefined,
                    f |-> [j \in {x \in Keys : d.sub[x] # Undefined} |-> LeafSnap(d.sub[j])]]
              ELSE IF k = Kb /\ d.top[Kb] = ArrayCode
              THEN [kind |-> "array", f |-> <<>>, leaf |-> Undefined]
              ELSE LeafSnap(d.top[k])]]

\* the value the parse loop left for a language
ParsedEntry(lang) ==
    IF pc = "parsed" THEN Snap(heap, result[lang]) ELSE Snap(rawHeap, rawResult[lang])

\* C25 (as stated): for each language entry of a successful response, the
\* parse loop yields the parsed document when the entry is a JSON text, the
\* document itself when the entry is structured, and the string itself when
\* the entry is a string that is not JSON text; such a string is still the
\* language's result after applyFallbacks.
C25_EntryForms ==
    pc \in {"parsed", "done"} =>
        \A lang \in DOMAIN response.body :
            LET e == response.body[lang]
            IN /\ e.form \in {"json", "object"} => ParsedEntry(lang) = DocSnap(e.doc)
               /\ e.form = "text" => ParsedEntry(lang) = LeafSnap(e.text)
               /\ (e.form = "text" /\ pc = "done") => result[lang] = e.text

\* C25 (amended): the same, but only a non-empty string that is not JSON
\* text is still the language's result after applyFallbacks; an empty
\* string is an empty result, which the fallback step may replace.
C25_EntryFormsNonEmptyText ==
    pc \in {"parsed", "done"} =>
        \A lang \in DOMAIN response.body :
            LET e == response.body[lang]
            IN /\ e.form \in {"json", "object"} => ParsedEntry(lang) = DocSnap(e.doc)
               /\ e.form = "text" => ParsedEntry(lang) = LeafSnap(e.text)
               /\ (e.form = "text" /\ e.text # EmptyString /\ pc = "done")
                  => result[lang] = e.text

\* a requested language whose entry is a plain text, with the source
\* fallback enabled, next to a JSON text entry: the text is returned
C25_Witness ==
    /\ pc = "done"
    /\ fallbackToSource
    /\ targetLanguages = <<PtBR, Pt>>
    /\ DOMAIN response.body = {Pt, PtBR}
    /\ response.body[PtBR].form = "text"
    /\ response.body[PtBR].text = PlainText
    /\ response.body[Pt].form = "json"
    /\ result[PtBR] = PlainText
    /\ FinalDoc(Pt) = DocSnap(Doc(SourceText, ObjectCode, Undefined, Sub(SourceText, SourceText)))
    /\ fallbackInfo.used

\* C22: the metadata entries of the result set are not treated as
\* language documents: after the parse loop and after applyFallbacks every
\* metadata entry of the response is in the result set as the service sent
\* it (the same document, or the same string), and the command writes no
\* file for a reserved key.
C22_MetadataPassedThrough ==
    /\ pc \in {"parsed", "done", "written"} =>
          \A k \in DOMAIN response.body \cap Elements(ServiceMetaKeys) :
              LET e == response.body[k]
              IN IF e.form = "object"
                 THEN Snap(heap, result[k]) = DocSnap(e.doc)
                 ELSE result[k] = e.text
    /\ pc = "written" =>
          \A k \in DOMAIN outputTranslations : ~Reserved(k)

\* C23: a failing precondition prevents the remote call: translateJSON
\* without an API key rejects with 'API key is required...' and no request
\* is ever made; the command with no API key, with a missing <input> or
\* with an <input> that is not JSON never sends a request nor writes a file.
C23_PreconditionsFirst ==
    /\ (input = "none" /\ ~apiKey) =>
          /\ pc \in {"start", "rejected"}
          /\ requests = 0
          /\ result = <<>>
          /\ pc = "rejected" =>
                error.message = <<"API key is required. Set SHIPI18N_API_KEY or run: shipi18n config set apiKey YOUR_KEY">>
    /\ (input # "none" /\ (~apiKey \/ input \in {"missing", "invalid"})) =>
          /\ pc \in {"command", "exited"}
          /\ requests = 0
          /\ outputTranslations = <<>>

\* the command has exited on an <input> that is not JSON, with an API key
\* at hand and saved documents in the output directory
C23_Witness ==
    /\ pc = "exited"
    /\ apiKey
    /\ input = "invalid"
    /\ files # <<>>
    /\ requests = 0

\* C27: the command writes a file only for a requested language; a base
\* language that translateJSON added to the request writes none.  Stated
\* for the responses that hold entries of the languages asked for only.
C27_OnlyRequestedWritten ==
    (pc = "written" /\ DOMAIN rawResult \cap Langs \subseteq Elements(processedTargets)) =>
        DOMAIN outputTranslations \subseteq Requested

\* the service returned a non-blank value at every sent key, for every
\* requested language
AllTranslated ==
    \A lang \in Requested :
        /\ lang \in DOMAIN rawResult
        /\ \A p \in DOMAIN allMissingKeys :
              ~IsBlank(ValueAt(rawHeap, rawResult[lang], p))

\* allMissingKeys of a run that follows the write: the same source, targets
\* and output directory, whose <output>/<lang>.json files are now the
\* written documents
NextRunMissing ==
    LET loaded == LoadExisting(FilesByName, outputTranslations @@ FilesByLang,
                               targetLanguages)
    IN PlanFrom([h |-> heap, all |-> <<>>], 1, targetLanguages, loaded).all

\* C30: when the service returned a non-blank translation of every sent key
\* for every requested language and the outputs were written, the next
\* incremental run finds no missing key (and returns before any request),
\* wherever the saved documents were loaded from.
C30_Converges ==
    (pc = "written" /\ AllTranslated) => UpToDate(NextRunMissing)

====
